---- MODULE Spec2Model ----
(***************************************************************************)
(* Model of dev.py, the development supervisor: it launches the Go server  *)
(* and the Next.js dev server, relays their output in one thread per       *)
(* child, records the Go server's PID under pids/, and on KeyboardInterrupt*)
(* runs stop_processes, which confirms to the Next.js child and terminates *)
(* every PID recorded under pids/.                                         *)
(***************************************************************************)
EXTENDS Integers, Sequences, FiniteSets, TLC

\* ---------------------------------------------------------------- bounds
MaxPid == 3        \* process identifiers the OS hands out: 1..MaxPid
MaxLines == 1      \* lines a child prints before it falls silent
MaxRuns == 2       \* successive invocations of dev.py sharing pids/
MaxForeign == 1    \* processes started by other programs
MaxLen == 4        \* characters of a line a child prints

Pids == 1..MaxPid
None == 0          \* Python's None for next_process / an unset local
Children == {"go", "next"}
Files == {"go.pid"}
Modes == {"start", "stop"}

\* ------------------------------------------------------- pure functions
\* str(pid), dev.py:46
RECURSIVE str(_)
str(n) == IF n < 10 THEN <<n>> ELSE str(n \div 10) \o <<n % 10>>

\* int(text.strip()), dev.py:76; the empty text has no integer value
RECURSIVE int(_)
int(s) == IF Len(s) = 1 THEN s[1]
          ELSE 10 * int(SubSeq(s, 1, Len(s) - 1)) + s[Len(s)]

\* Text is a sequence of code points.  The characters a child's line is
\* made of: 'a', '^', the characters of the two glyph sequences, the check
\* mark and one more non-ASCII character (e-acute).
Alphabet == {97, 94, 226, 8211, 178, 339, 8220, 10003, 233}
Lines == UNION {[1..n -> Alphabet] : n \in 1..MaxLen}

\* the 'building' marker of dev.py:23, a-circumflex en-dash superscript-2
BuildingGlyph == <<226, 8211, 178>>
\* the 'success' marker of dev.py:23, a-circumflex oe left-double-quote
SuccessGlyph == <<226, 339, 8220>>
\* '^'
Caret == <<94>>
\* the check mark U+2713
CheckMark == <<10003>>

\* str.replace(old, new): leftmost non-overlapping occurrences
RECURSIVE Replace(_, _, _)
Replace(s, old, new) ==
    IF Len(s) < Len(old) THEN s
    ELSE IF SubSeq(s, 1, Len(old)) = old
           THEN new \o Replace(SubSeq(s, Len(old) + 1, Len(s)), old, new)
           ELSE <<s[1]>> \o Replace(Tail(s), old, new)

IsAscii(ch) == ch >= 0 /\ ch <= 127

\* re.sub(r'[^\x00-\x7F]+', '', line, count=1): only the first run goes
StripFirstRun(s) ==
    LET bad == {i \in 1..Len(s) : ~IsAscii(s[i])}
    IN  IF bad = {} THEN s
        ELSE LET i == CHOOSE k \in bad : \A m \in bad : k <= m
                 good == {k \in (i + 1)..Len(s) : IsAscii(s[k])}
                 j == IF good = {} THEN Len(s) + 1
                      ELSE CHOOSE k \in good : \A m \in good : k <= m
             IN  SubSeq(s, 1, i - 1) \o SubSeq(s, j, Len(s))
\* re.sub(r'[^\x00-\x7F]+', '', line), dev.py:25
StripNonAscii(s) == SelectSeq(s, IsAscii)

\* dev.py:23 alone, without the re.sub of dev.py:25
sanitizeNoStrip(l) ==
    Replace(Replace(l, BuildingGlyph, Caret), SuccessGlyph, CheckMark)
\* dev.py:23-25
sanitize(l) ==
    StripNonAscii(Replace(Replace(l, BuildingGlyph, Caret),
                          SuccessGlyph, CheckMark))

\* the identifier handle_output is started with, dev.py:42 and dev.py:56
Identifier(c) == IF c = "go" THEN <<71, 111, 32, 32>>     \* "Go  "
                            ELSE <<78, 101, 120, 116>>   \* "Next"
\* colors.get(identifier, "\033[0m"), dev.py:12-18
Color(c) == IF c = "go" THEN <<27, 91, 57, 52, 109>>      \* ESC[94m
                       ELSE <<27, 91, 57, 50, 109>>      \* ESC[92m
\* reset_color, dev.py:16
ResetColor == <<27, 91, 48, 109>>                         \* ESC[0m
\* f"{color}{identifier}:{reset_color} {line}", dev.py:26
Emit(c, l) ==
    Color(c) \o Identifier(c) \o <<58>> \o ResetColor \o <<32>> \o sanitize(l)

\* psutil.Process(pid).terminate(), dev.py:78-80, by the state of the pid
TerminateOutcome(st) ==
    CASE st = "child"  -> "ok"
      [] st = "alive"  -> "ok"
      [] st = "orphan" -> "ok"
      [] st = "free"   -> "NoSuchProcess"
      [] st = "denied" -> "AccessDenied"
      [] st = "zombie" -> "ZombieProcess"

\* the except clause of dev.py:80 without psutil.ZombieProcess
ToleratedNoZombie == {"NoSuchProcess", "AccessDenied"}
\* except (psutil.NoSuchProcess, psutil.AccessDenied, psutil.ZombieProcess)
Tolerated == {"NoSuchProcess", "AccessDenied", "ZombieProcess"}

VARIABLES
    pc,            \* position of the main thread
    argv,          \* command-line mode of this invocation
    run,           \* number of this invocation
    pidsDir,       \* whether pids/ exists
    registry,      \* pids/: file name -> text
    procs,         \* OS process table: pid -> "free", "child" (running,
                   \* started by the running supervisor), "alive" (running,
                   \* of another program), "denied" (running, of another
                   \* user), "zombie" (exited child, not yet reaped),
                   \* "orphan" (running, left behind by an earlier run)
    foreign,       \* processes started by other programs so far
    cwd,           \* the supervisor's working directory
    go,            \* local `go` of start_processes (pid of the Popen)
    next_process,  \* global next_process (pid of the Popen)
    relay,         \* state of each handle_output thread
    stdoutOpen,    \* whether process.stdout of each child is open
    emitted,       \* lines each relay has written
    todo,          \* os.listdir(pids_dir) entries still to visit
    curFile,       \* pid_file of the running loop iteration
    error,         \* exception that left the main thread, if any
    interrupted,   \* whether the KeyboardInterrupt handler was entered
    snap,          \* pids/ as it was when the handler was entered
    trace,         \* events of stop_processes, in order
    ident,         \* the relay that wrote last
    line,          \* the line it had read
    written        \* the text it wrote to sys.stdout

vars == <<pc, argv, run, pidsDir, registry, procs, foreign, cwd, go,
          next_process, relay, stdoutOpen, emitted, todo, curFile, error,
          interrupted, snap, trace, ident, line, written>>

osVars == <<procs, foreign>>
diskVars == <<pidsDir, registry>>
relayVars == <<relay, stdoutOpen, emitted>>
stopVars == <<todo, curFile, trace>>
lineVars == <<ident, line, written>>

NoRecords == [f \in {} |-> <<>>]
Handle(c) == IF c = "go" THEN go ELSE next_process
Event(e, p, f) == [ev |-> e, pid |-> p, file |-> f]

\* statements of the try body, dev.py:86 (start_processes)
TryBody == {"mkdir", "chdir_go", "popen_go", "thread_go", "open_go",
            "write_go", "chdir_next", "popen_next", "thread_next",
            "join_go", "join_next"}

Init ==
    /\ pc = "mkdir"
    /\ argv \in Modes
    /\ run = 1
    /\ pidsDir = FALSE
    /\ registry = NoRecords
    /\ procs = [p \in Pids |-> "free"]
    /\ foreign = 0
    /\ cwd = "base"
    /\ go = None
    /\ next_process = None
    /\ relay = [c \in Children |-> "unstarted"]
    /\ stdoutOpen = [c \in Children |-> FALSE]
    /\ emitted = [c \in Children |-> 0]
    /\ todo = {}
    /\ curFile = "none"
    /\ error = "none"
    /\ interrupted = FALSE
    /\ snap = [dir |-> FALSE, reg |-> NoRecords]
    /\ trace = <<>>
    /\ ident = "none"
    /\ line = <<>>
    /\ written = <<>>

\* an exception other than KeyboardInterrupt leaves the main thread
Raise(e) ==
    /\ pc' = "finalize"
    /\ error' = e

\* ------------------------------------------------------ start_processes
MakeDirs ==
    /\ pc = "mkdir"
    /\ pidsDir' = TRUE
    /\ pc' = "chdir_go"
    /\ UNCHANGED <<lineVars, argv, run, registry, osVars, cwd, go, next_process,
                   relayVars, stopVars, error, interrupted, snap>>

Chdir(from, dir, to) ==
    /\ pc = from
    /\ \/ /\ cwd' = dir
          /\ pc' = to
          /\ UNCHANGED error
       \/ /\ Raise("LaunchError")
          /\ UNCHANGED cwd
    /\ UNCHANGED <<lineVars, argv, run, diskVars, osVars, go, next_process,
                   relayVars, stopVars, interrupted, snap>>

ChdirGo == Chdir("chdir_go", "backend/go", "popen_go")
ChdirNext == Chdir("chdir_next", "frontend", "popen_next")

PopenGo ==
    /\ pc = "popen_go"
    /\ \/ \E p \in Pids :
            /\ procs[p] = "free"
            /\ procs' = [procs EXCEPT ![p] = "child"]
            /\ go' = p
            /\ stdoutOpen' = [stdoutOpen EXCEPT !["go"] = TRUE]
            /\ pc' = "thread_go"
            /\ UNCHANGED error
       \/ /\ Raise("LaunchError")
          /\ UNCHANGED <<procs, go, stdoutOpen>>
    /\ UNCHANGED <<lineVars, argv, run, diskVars, foreign, cwd, next_process, relay,
                   emitted, stopVars, interrupted, snap>>

PopenNext ==
    /\ pc = "popen_next"
    /\ \/ \E p \in Pids :
            /\ procs[p] = "free"
            /\ procs' = [procs EXCEPT ![p] = "child"]
            /\ next_process' = p
            /\ stdoutOpen' = [stdoutOpen EXCEPT !["next"] = TRUE]
            /\ pc' = "thread_next"
            /\ UNCHANGED error
       \/ /\ Raise("LaunchError")
          /\ UNCHANGED <<procs, next_process, stdoutOpen>>
    /\ UNCHANGED <<lineVars, argv, run, diskVars, foreign, cwd, go, relay, emitted,
                   stopVars, interrupted, snap>>

ThreadStart(from, c, to) ==
    /\ pc = from
    /\ relay' = [relay EXCEPT ![c] = "running"]
    /\ pc' = to
    /\ UNCHANGED <<lineVars, argv, run, diskVars, osVars, cwd, go, next_process,
                   stdoutOpen, emitted, stopVars, error, interrupted, snap>>

ThreadGo == ThreadStart("thread_go", "go", "open_go")
ThreadNext == ThreadStart("thread_next", "next", "join_go")

OpenGoPid ==
    /\ pc = "open_go"
    /\ registry' = [f \in DOMAIN registry \cup {"go.pid"} |->
                       IF f = "go.pid" THEN <<>> ELSE registry[f]]
    /\ pc' = "write_go"
    /\ UNCHANGED <<lineVars, argv, run, pidsDir, osVars, cwd, go, next_process,
                   relayVars, stopVars, error, interrupted, snap>>

WriteGoPid ==
    /\ pc = "write_go"
    /\ registry' = [registry EXCEPT !["go.pid"] = str(go)]
    /\ pc' = "chdir_next"
    /\ UNCHANGED <<lineVars, argv, run, pidsDir, osVars, cwd, go, next_process,
                   relayVars, stopVars, error, interrupted, snap>>

Join(from, c, to) ==
    /\ pc = from
    /\ relay[c] \in {"done", "died"}
    /\ pc' = to
    /\ UNCHANGED <<lineVars, argv, run, diskVars, osVars, cwd, go, next_process,
                   relayVars, stopVars, error, interrupted, snap>>

JoinGo == Join("join_go", "go", "join_next")
JoinNext == Join("join_next", "next", "finalize")

\* ------------------------------------------------------- handle_output
\* one pass of the for loop: a line is read, sanitized and written
RelayLine(c) ==
    /\ relay[c] = "running"
    /\ procs[Handle(c)] = "child"
    /\ emitted[c] < MaxLines
    /\ emitted' = [emitted EXCEPT ![c] = @ + 1]
    /\ UNCHANGED <<lineVars, pc, argv, run, diskVars, osVars, cwd, go, next_process,
                   relay, stdoutOpen, stopVars, error, interrupted, snap>>

\* the body of the for loop with the text of the line, dev.py:20-26; it
\* keeps nothing from one line to the next, so one line per behaviour
\* covers every line
HandleLine(c, l) ==
    /\ ident = "none"
    /\ ident' = c
    /\ line' = l
    /\ written' = Emit(c, l)
    /\ UNCHANGED <<pc, argv, run, diskVars, osVars, cwd, go, next_process,
                   relayVars, stopVars, error, interrupted, snap>>

\* readline raises (bytes the text decoder rejects): the thread dies at
\* line 20 and never reaches line 29
RelayReadError(c) ==
    /\ relay[c] = "running"
    /\ procs[Handle(c)] = "child"
    /\ emitted[c] < MaxLines
    /\ relay' = [relay EXCEPT ![c] = "died"]
    /\ UNCHANGED <<lineVars, pc, argv, run, diskVars, osVars, cwd, go, next_process,
                   stdoutOpen, emitted, stopVars, error, interrupted, snap>>

\* readline returns '' once the child has exited; process.stdout.close()
RelayEof(c) ==
    /\ relay[c] = "running"
    /\ procs[Handle(c)] # "child"
    /\ stdoutOpen' = [stdoutOpen EXCEPT ![c] = FALSE]
    /\ relay' = [relay EXCEPT ![c] = "done"]
    /\ UNCHANGED <<lineVars, pc, argv, run, diskVars, osVars, cwd, go, next_process,
                   emitted, stopVars, error, interrupted, snap>>

\* ------------------------------------------------------------ __main__
\* KeyboardInterrupt reaches the main thread inside the try body
Interrupt ==
    /\ pc \in TryBody
    /\ pc' = "stop_poll"
    /\ interrupted' = TRUE
    /\ snap' = [dir |-> pidsDir, reg |-> registry]
    /\ UNCHANGED <<lineVars, argv, run, diskVars, osVars, cwd, go, next_process,
                   relayVars, stopVars, error>>

\* a second KeyboardInterrupt, inside the except clause, is not handled
InterruptInHandler ==
    /\ pc \in {"stop_poll", "stop_write", "stop_list", "stop_loop",
               "stop_remove"}
    /\ Raise("KeyboardInterrupt")
    /\ UNCHANGED <<lineVars, argv, run, diskVars, osVars, cwd, go, next_process,
                   relayVars, stopVars, interrupted, snap>>

\* ------------------------------------------------------- stop_processes
\* if next_process and next_process.poll() is None; poll() reaps a zombie
StopPoll ==
    /\ pc = "stop_poll"
    /\ IF next_process # None /\ procs[next_process] = "child"
         THEN pc' = "stop_write" /\ UNCHANGED procs
         ELSE /\ pc' = "stop_list"
              /\ procs' = IF next_process # None
                             /\ procs[next_process] = "zombie"
                            THEN [procs EXCEPT ![next_process] = "free"]
                            ELSE procs
    /\ UNCHANGED <<lineVars, argv, run, diskVars, foreign, cwd, go, next_process,
                   relayVars, stopVars, error, interrupted, snap>>

\* lines 66-67 without the try/except around them
StopWriteNoExcept ==
    /\ pc = "stop_write"
    /\ \/ /\ procs[next_process] = "child"
          /\ trace' = Append(trace, Event("key", next_process, "stdin"))
          /\ pc' = "stop_list"
          /\ UNCHANGED error
       \/ /\ trace' = Append(trace, Event("keyerr", next_process, "stdin"))
          /\ Raise("BrokenPipeError")
    /\ UNCHANGED <<lineVars, argv, run, diskVars, osVars, cwd, go, next_process,
                   relayVars, todo, curFile, interrupted, snap>>

\* stdin.write('y'); stdin.flush(), any Exception printed and swallowed
StopWrite ==
    /\ pc = "stop_write"
    /\ \/ /\ procs[next_process] = "child"
          /\ trace' = Append(trace, Event("key", next_process, "stdin"))
       \/ trace' = Append(trace, Event("keyerr", next_process, "stdin"))
    /\ pc' = "stop_list"
    /\ UNCHANGED <<lineVars, argv, run, diskVars, osVars, cwd, go, next_process,
                   relayVars, todo, curFile, error, interrupted, snap>>

\* os.listdir(pids_dir)
StopList ==
    /\ pc = "stop_list"
    /\ IF pidsDir
         THEN /\ todo' = DOMAIN registry
              /\ pc' = "stop_loop"
              /\ UNCHANGED error
         ELSE /\ Raise("FileNotFoundError")
              /\ UNCHANGED todo
    /\ UNCHANGED <<lineVars, argv, run, diskVars, osVars, cwd, go, next_process,
                   relayVars, curFile, trace, interrupted, snap>>

\* lines 75-81 with a return after the print of the except clause
StopAttemptBreak ==
    /\ pc = "stop_loop"
    /\ \E f \in todo :
         /\ curFile' = f
         /\ IF registry[f] = <<>>
              THEN /\ Raise("ValueError")
                   /\ UNCHANGED trace
              ELSE LET pid == int(registry[f])
                       outcome == TerminateOutcome(procs[pid])
                   IN  /\ UNCHANGED error
                       /\ IF outcome = "ok"
                            THEN /\ trace' = Append(trace, Event("term", pid, f))
                                 /\ pc' = "stop_remove"
                            ELSE /\ trace' = Append(trace,
                                                 Event("report", pid, f))
                                 /\ pc' = "finalize"
    /\ UNCHANGED <<lineVars, argv, run, diskVars, osVars, cwd, go, next_process,
                   relayVars, todo, interrupted, snap>>

\* lines 75-81 for one pid_file: read, parse, terminate or report
StopAttempt ==
    /\ pc = "stop_loop"
    /\ \E f \in todo :
         /\ curFile' = f
         /\ IF registry[f] = <<>>
              THEN /\ Raise("ValueError")
                   /\ UNCHANGED trace
              ELSE LET pid == int(registry[f])
                       outcome == TerminateOutcome(procs[pid])
                   IN  IF outcome = "ok"
                         THEN /\ trace' = Append(trace, Event("term", pid, f))
                              /\ pc' = "stop_remove"
                              /\ UNCHANGED error
                         ELSE IF outcome \in Tolerated
                                THEN /\ trace' = Append(trace,
                                                 Event("report", pid, f))
                                     /\ pc' = "stop_remove"
                                     /\ UNCHANGED error
                                ELSE /\ Raise(outcome)
                                     /\ UNCHANGED trace
    /\ UNCHANGED <<lineVars, argv, run, diskVars, osVars, cwd, go, next_process,
                   relayVars, todo, interrupted, snap>>

\* os.remove(pid_file), line 82
StopRemove ==
    /\ pc = "stop_remove"
    /\ registry' = [f \in DOMAIN registry \ {curFile} |-> registry[f]]
    /\ todo' = todo \ {curFile}
    /\ pc' = "stop_loop"
    /\ UNCHANGED <<lineVars, argv, run, pidsDir, osVars, cwd, go, next_process,
                   relayVars, curFile, trace, error, interrupted, snap>>

\* the loop is over: print, sys.exit(0)
StopReturn ==
    /\ pc = "stop_loop"
    /\ todo = {}
    /\ pc' = "finalize"
    /\ UNCHANGED <<lineVars, argv, run, diskVars, osVars, cwd, go, next_process,
                   relayVars, stopVars, error, interrupted, snap>>

\* ------------------------------------------------- interpreter and OS
\* the interpreter joins every non-daemon thread before the process ends;
\* the children it leaves running are orphans, its zombies are reaped
Exit ==
    /\ pc = "finalize"
    /\ \A c \in Children : relay[c] # "running"
    /\ pc' = "exited"
    /\ procs' = [p \in Pids |->
                   CASE procs[p] = "child"  -> "orphan"
                     [] procs[p] = "zombie" -> "free"
                     [] OTHER -> procs[p]]
    /\ UNCHANGED <<lineVars, argv, run, diskVars, foreign, cwd, go, next_process,
                   relayVars, stopVars, error, interrupted, snap>>

\* dev.py is run again; pids/ and the process table are what was left
Reinvoke ==
    /\ pc = "exited"
    /\ run < MaxRuns
    /\ run' = run + 1
    /\ argv' \in Modes
    /\ pc' = "mkdir"
    /\ cwd' = "base"
    /\ go' = None
    /\ next_process' = None
    /\ relay' = [c \in Children |-> "unstarted"]
    /\ stdoutOpen' = [c \in Children |-> FALSE]
    /\ emitted' = [c \in Children |-> 0]
    /\ todo' = {}
    /\ curFile' = "none"
    /\ error' = "none"
    /\ interrupted' = FALSE
    /\ snap' = [dir |-> FALSE, reg |-> NoRecords]
    /\ trace' = <<>>
    /\ UNCHANGED <<lineVars, diskVars, osVars>>

\* a running process exits (by itself or because it was terminated)
ProcExit(p) ==
    /\ procs[p] \in {"child", "alive", "denied", "orphan"}
    /\ procs' = [procs EXCEPT ![p] = IF @ = "child" THEN "zombie"
                                                    ELSE "free"]
    /\ UNCHANGED <<lineVars, pc, argv, run, diskVars, foreign, cwd, go, next_process,
                   relayVars, stopVars, error, interrupted, snap>>

\* another program starts a process, which gets a free pid
OsSpawn(p) ==
    /\ procs[p] = "free"
    /\ foreign < MaxForeign
    /\ foreign' = foreign + 1
    /\ \E st \in {"alive", "denied"} : procs' = [procs EXCEPT ![p] = st]
    /\ UNCHANGED <<lineVars, pc, argv, run, diskVars, cwd, go, next_process,
                   relayVars, stopVars, error, interrupted, snap>>

Next ==
    \/ MakeDirs
    \/ ChdirGo
    \/ PopenGo
    \/ ThreadGo
    \/ OpenGoPid
    \/ WriteGoPid
    \/ ChdirNext
    \/ PopenNext
    \/ ThreadNext
    \/ JoinGo
    \/ JoinNext
    \/ \E c \in Children : RelayLine(c)
    \/ \E c \in Children : RelayReadError(c)
    \/ \E c \in Children : RelayEof(c)
    \/ Interrupt
    \/ InterruptInHandler
    \/ StopPoll
    \/ StopWrite
    \/ StopList
    \/ StopAttempt
    \/ StopRemove
    \/ StopReturn
    \/ Exit
    \/ Reinvoke
    \/ \E p \in Pids : ProcExit(p)
    \/ \E p \in Pids : OsSpawn(p)

Spec == Init /\ [][Next]_vars

\* handle_output alone, on every line a child can print
RelayNext ==
    /\ ident = "none"
    /\ \E c \in Children : \E l \in Lines : HandleLine(c, l)

RelaySpec == Init /\ [][RelayNext]_vars

TypeOK ==
    /\ pc \in TryBody \cup {"stop_poll", "stop_write", "stop_list",
                            "stop_loop", "stop_remove", "finalize", "exited"}
    /\ DOMAIN registry \subseteq Files
    /\ \A f \in DOMAIN registry : registry[f] = <<>> \/ int(registry[f]) \in Pids
    /\ go \in Pids \cup {None}
    /\ next_process \in Pids \cup {None}

\* ---------------------------------------------------------- properties
Launched == {c \in Children : Handle(c) # None}
HasRecord(c) == \E f \in DOMAIN registry : registry[f] = str(Handle(c))
RecordedIn(reg) == {reg[f] : f \in DOMAIN reg}
Idx(e) == {i \in 1..Len(trace) : trace[i].ev = e}
TermSent == {trace[i].pid : i \in Idx("term")}
Attempts == Idx("term") \cup Idx("report")
\* stop_processes returned to the except clause, which then left by sys.exit
HandlerFinished ==
    interrupted /\ pc \in {"finalize", "exited"} /\ error = "none"

\* C1: while start_processes runs, a child's relay thread has been started
\* only if the registry already holds that child's PID record.
Claim_C1_RecordBeforeRelay ==
    (pc \in TryBody) =>
        \A c \in Children : relay[c] # "unstarted" => HasRecord(c)

\* C2: once start_processes has launched all services, the registry holds
\* exactly one record per launched service, none missing.
Claim_C2_RegistryEqualsLaunched ==
    (pc \in {"join_go", "join_next"}) =>
        /\ \A c \in Launched : HasRecord(c)
        /\ Cardinality(DOMAIN registry) = Cardinality(Launched)

\* C3: with both services launched, the registry holds two records with
\* distinct PIDs when the interrupt arrives, and once the handler has
\* finished both children were sent a termination request and the registry
\* is empty.
Claim_C3_InterruptStopsBoth ==
    (interrupted /\ Launched = Children) =>
        /\ Cardinality(DOMAIN snap.reg) = 2
        /\ Cardinality(RecordedIn(snap.reg)) = 2
        /\ HandlerFinished =>
              /\ {go, next_process} \subseteq TermSent
              /\ DOMAIN registry = {}

\* C4: when the handler has finished and the Next.js child was running,
\* exactly one keystroke was written, and it precedes a termination request
\* sent to that same child.
Claim_C4_KeystrokeBeforeTerminate ==
    (HandlerFinished /\ Idx("key") # {}) =>
        /\ Cardinality(Idx("key")) = 1
        /\ \E i \in Idx("key") : \E j \in Idx("term") :
              i < j /\ trace[j].pid = next_process

\* C5: a termination attempt on a process that does not exist, is
\* access-denied or is a zombie is reported and never raised, and the record
\* of every attempt, whatever its outcome, is deleted by the end of its loop
\* iteration (unless a second interrupt cuts the iteration short).
TerminationErrors == {"NoSuchProcess", "AccessDenied", "ZombieProcess"}
AttemptStep ==
    pc = "stop_loop" /\ todo # {} /\ pc' # "stop_loop" /\ curFile' \in todo
        /\ registry[curFile'] # <<>> /\ error' # "KeyboardInterrupt"
Thm_C5_RecordRemovedWhateverOutcome ==
    /\ [](/\ error \notin TerminationErrors
          /\ \A i \in Attempts :
               \/ trace[i].file \notin DOMAIN registry
               \/ i = Len(trace) /\ curFile = trace[i].file
                    /\ (pc = "stop_remove" \/ error = "KeyboardInterrupt"))
    /\ [][AttemptStep =>
            LET pid == int(registry[curFile'])
            IN  /\ pc' = "stop_remove"
                /\ error' = "none"
                /\ procs[pid] \notin {"child", "alive", "orphan"} =>
                      trace' = Append(trace, Event("report", pid, curFile'))]_vars

Wit_C5_ReportedAndRemoved ==
    /\ HandlerFinished
    /\ \E i \in Idx("report") : trace[i].file \notin DOMAIN registry

\* C6: a stop_processes that starts with no record in the registry sends no
\* termination request, leaves the registry as it was and raises no error.
Claim_C6_StopOnEmptyIsNoOp ==
    (interrupted /\ DOMAIN snap.reg = {}) =>
        /\ Idx("term") = {}
        /\ registry = snap.reg
        /\ pidsDir = snap.dir
        /\ error \in {"none", "KeyboardInterrupt"}

\* C7: an invocation with the stop argument launches no child process.
Claim_C7_StopModeLaunchesNothing ==
    argv = "stop" => Launched = {}

\* C8: when the confirmation write fails, the failure does not leave
\* stop_processes, and when stop_processes has returned every record that
\* was in the registry has had its termination attempt after that failure
\* and is deleted.
Thm_C8_WriteFailureDoesNotAbort ==
    \A i \in Idx("keyerr") :
        /\ error \in {"none", "KeyboardInterrupt"}
        /\ pc # "stop_write"
        /\ HandlerFinished =>
              \A f \in DOMAIN snap.reg :
                  /\ f \notin DOMAIN registry
                  /\ \E j \in Attempts : j > i /\ trace[j].file = f

Wit_C8_StoppedAfterWriteFailure ==
    /\ HandlerFinished
    /\ Idx("keyerr") # {}
    /\ DOMAIN snap.reg # {}
    /\ DOMAIN registry = {}

\* C9: a relay that has stopped running, normally or by an error, has closed
\* its child's output stream.
Claim_C9_RelayClosesStream ==
    \A c \in Children : relay[c] \in {"done", "died"} => ~stdoutOpen[c]

\* C10: after a launch failure no later service is launched, the failure has
\* left start_processes, and the supervisor is not left waiting for the
\* relay of a child that is still running.
BlockedOnRelay ==
    /\ pc = "finalize"
    /\ \E c \in Children : relay[c] = "running" /\ procs[Handle(c)] = "child"
Claim_C10_LaunchFailureAborts ==
    (error = "LaunchError") =>
        /\ pc \in {"finalize", "exited"}
        /\ (go = None => next_process = None)
        /\ ~BlockedOnRelay

\* C11: the handler is entered at most once per invocation, and once the
\* main thread has left it the shutdown is complete: every record that was
\* in the registry has had its termination attempt and is deleted, also when
\* a second interrupt arrived meanwhile (records that were complete when the
\* handler was entered).
Claim_C11_ShutdownRunsToStopped ==
    (interrupted /\ pc \in {"finalize", "exited"}
        /\ \A f \in DOMAIN snap.reg : snap.reg[f] # <<>>) =>
        \A f \in DOMAIN snap.reg :
            /\ f \notin DOMAIN registry
            /\ \E j \in Attempts : trace[j].file = f

\* C12: outside the two spawn statements the supervisor's working directory
\* is the one it had before the launch.
Claim_C12_CwdRestoredAfterLaunch ==
    (pc \in TryBody \ {"popen_go", "popen_next"}) => cwd = "base"

Claim_C16_RelaysEndAfterShutdown ==
    HandlerFinished =>
        \A c \in Children :
            (relay[c] = "running" /\ procs[Handle(c)] = "child") =>
                Handle(c) \in TermSent

\* C17: no error leaves a relay thread: a relay is not started, running, or
\* finished with its stream closed as on end-of-stream.
Claim_C17_ReadErrorIsEndOfStream ==
    \A c \in Children :
        /\ relay[c] \in {"unstarted", "running", "done"}
        /\ relay[c] = "done" => ~stdoutOpen[c]

\* C19: while start_processes runs, every child that was spawned and is
\* still running has its PID record in the registry.
Claim_C19_RunningChildIsRecorded ==
    (pc \in TryBody) =>
        \A c \in Launched : procs[Handle(c)] = "child" => HasRecord(c)

\* C20: stop_processes never sends a termination request to a process that
\* another program started under a PID found in a stale record.
Claim_C20_TerminatesOnlyOwnChildren ==
    [][~(AttemptStep /\ procs[int(registry[curFile'])] = "alive")]_vars

\* ---------------------------------------- properties of the relayed text
PrefixLen == Len(Color("go")) + Len(Identifier("go")) + 1 + Len(ResetColor) + 1
Payload == SubSeq(written, PrefixLen + 1, Len(written))
Contains(s, g) ==
    \E i \in 0..(Len(s) - Len(g)) : SubSeq(s, i + 1, i + Len(g)) = g
AllAscii(s) == \A i \in 1..Len(s) : s[i] <= 127

\* C13: sanitizing the sanitized form of the line read gives that form again.
Thm_C13_SanitizeIdempotent ==
    sanitize(sanitize(line)) = sanitize(line)

Wit_C13_GlyphsAndOthersSanitized ==
    /\ written # <<>>
    /\ Contains(line, BuildingGlyph) \/ Contains(line, SuccessGlyph)
    /\ \E i \in 1..Len(line) : line[i] = 233
    /\ Payload # line

\* C14: what a relay writes is ESC[94m"Go  " or ESC[92m"Next", then ':',
\* ESC[0m, a space and the sanitized line, all of it ASCII, also when the
\* line contained the 'success' glyph.
Thm_C14_EmittedLineIsLabelledAscii ==
    (written # <<>>) =>
        /\ ident = "go" => SubSeq(written, 1, 15) =
              <<27, 91, 57, 52, 109, 71, 111, 32, 32, 58, 27, 91, 48, 109, 32>>
        /\ ident = "next" => SubSeq(written, 1, 15) =
              <<27, 91, 57, 50, 109, 78, 101, 120, 116, 58, 27, 91, 48, 109, 32>>
        /\ ident \in Children
        /\ AllAscii(written)
        /\ Len(written) <= 15 + Len(line)

Wit_C14_SuccessGlyphRelayed ==
    /\ written # <<>>
    /\ Contains(line, SuccessGlyph)
    /\ Len(Payload) > 0

\* C18: a line made of ASCII text around one known glyph is written with a
\* non-empty ASCII substitute in the glyph's place.
Claim_C18_GlyphGetsAsciiSubstitute ==
    \A g \in {BuildingGlyph, SuccessGlyph} :
        \A i \in 0..(Len(line) - Len(g)) :
            LET pre == SubSeq(line, 1, i)
                post == SubSeq(line, i + Len(g) + 1, Len(line))
            IN  (written # <<>> /\ SubSeq(line, i + 1, i + Len(g)) = g
                    /\ AllAscii(pre) /\ AllAscii(post)) =>
                    /\ Len(Payload) > Len(pre) + Len(post)
                    /\ AllAscii(Payload)
                    /\ SubSeq(Payload, 1, Len(pre)) = pre
                    /\ SubSeq(Payload, Len(Payload) - Len(post) + 1,
                              Len(Payload)) = post

====
